---- MODULE Spec2Model ----
(***************************************************************************)
(* A model of the hybrid HyperLogLog of go-hll (hll.go, sparse.go,        *)
(* dense.go).  An HLL is a byte buffer: an 8-byte header followed by      *)
(* either a list of raw hashes (sparse) or packed 6-bit registers         *)
(* (dense).  Buffers are sequences of bytes 0..255; Go index i is TLA+    *)
(* index i+1.  A 64-bit hash is the sequence of its 8 little-endian       *)
(* bytes, which is how the code stores it.                                *)
(***************************************************************************)
EXTENDS Integers, Sequences, FiniteSets, TLC

VARIABLES h, g, all, adds, added, last, mono, phase, probe

vars == <<h, g, all, adds, added, last, mono, phase, probe>>

(***************************************************************************)
(* Bytes, slices and fixed-width encodings.                               *)
(***************************************************************************)
\* The function f on 1..n as a sequence value.  (SubSeq builds the tuple:
\* the model never applies EXCEPT to a function still given by its rule.)
AsSeq(f, n) == SubSeq(f, 1, n)

Zeros(n) == AsSeq([i \in 1..n |-> 0], n)

At(s, i) == s[i + 1]

Put(s, i, v) == [s EXCEPT ![i + 1] = v]

\* s[from:to] of Go: bytes from..to-1.
Slice(s, from, to) == SubSeq(s, from + 1, to)

\* copy(s[off:], src) for a src that fits.
CopyAt(s, off, src) ==
    SubSeq(s, 1, off) \o src \o SubSeq(s, off + Len(src) + 1, Len(s))

Min(a, b) == IF a < b THEN a ELSE b

\* The value standing for every uint64 that does not fit TLC's integers.
Saturated == 2147483647

\* binary.BigEndian.Uint32(s) & ^(1 << 31)
size(s) == ((At(s, 0) % 128) * 16777216) + (At(s, 1) * 65536) + (At(s, 2) * 256) + At(s, 3)

dirty(s) == At(s, 0) \div 128 = 1

\* The mode bit, h[0]&(1<<6) != 0.
isDense(b) == (At(b, 0) \div 64) % 2 = 1

IsSparse(b) == (At(b, 0) \div 64) % 2 = 0

\* binary.BigEndian.PutUint32(s, sz | hi<<31), with sz < 2^31 and hi the top bit.
setSize(s, sz, hi) ==
    [s EXCEPT ![1] = (hi * 128) + (sz \div 16777216),
              ![2] = (sz \div 65536) % 256,
              ![3] = (sz \div 256) % 256,
              ![4] = sz % 256]

\* binary.LittleEndian.Uint64(s[8*i:]): the i-th 8-byte slot, kept as its bytes.
hashAt(s, i) == Slice(s, 8 * i, (8 * i) + 8)

\* binary.LittleEndian.PutUint64(s[8*i:], hash)
putHash(s, i, hash) == CopyAt(s, 8 * i, hash)

(***************************************************************************)
(* Dense engine (dense.go): d is the register array, 3 bytes per 4        *)
(* registers.                                                             *)
(***************************************************************************)
m(d) == (Len(d) \div 3) * 4

\* bits.Clz(hash): leading zeros of the 64-bit value, byte 7 is the top byte.
RECURSIVE ClzByte(_, _)
ClzByte(b, bit) ==
    IF bit < 0 THEN 8
    ELSE IF (b \div (2 ^ bit)) % 2 = 1 THEN 7 - bit
    ELSE ClzByte(b, bit - 1)

RECURSIVE ClzFrom(_, _)
ClzFrom(hash, k) ==
    IF k < 0 THEN 0
    ELSE IF At(hash, k) # 0 THEN ClzByte(At(hash, k), 7)
    ELSE 8 + ClzFrom(hash, k - 1)

Clz(hash) == ClzFrom(hash, 7)

\* hash & (m-1) for m <= 2^25: the low bits of the low four bytes.
index(hash, mm) ==
    (At(hash, 0) + (At(hash, 1) * 256) + (At(hash, 2) * 65536)
        + ((At(hash, 3) % 2) * 16777216)) % mm

rhoOf(hash) == Min(Clz(hash) + 1, 63)

\* xL0<<4 ^ xL1<<2 ^ xL2: register d of the group starting at byte bp.
lowReg(d, bp) ==
    ((At(d, bp) % 4) * 16) + ((At(d, bp + 1) % 4) * 4) + (At(d, bp + 2) % 4)

get(d, idx) ==
    LET bp == (idx \div 4) * 3
        s == idx % 4
    IN  IF s # 3 THEN At(d, bp + s) \div 4 ELSE lowReg(d, bp)

\* Dense.set writing register d without keeping the high six bits of its
\* three bytes.
setClobber(d, idx, v) ==
    LET bp == (idx \div 4) * 3
        s == idx % 4
    IN  IF s # 3
        THEN Put(d, bp + s, (At(d, bp + s) % 4) + (v * 4))
        ELSE Put(Put(Put(d, bp, v \div 16), bp + 1, (v \div 4) % 4), bp + 2, v % 4)

\* Dense.set for v < 64, as every caller passes: b&3 ^ v<<2, and for
\* register d the three pairs of bits of v under the kept high bits.
set(d, idx, v) ==
    LET bp == (idx \div 4) * 3
        s == idx % 4
    IN  IF s # 3
        THEN Put(d, bp + s, (At(d, bp + s) % 4) + (v * 4))
        ELSE Put(Put(Put(d,
                bp, ((At(d, bp) \div 4) * 4) + (v \div 16)),
                bp + 1, ((At(d, bp + 1) \div 4) * 4) + ((v \div 4) % 4)),
                bp + 2, ((At(d, bp + 2) \div 4) * 4) + (v % 4))

\* Dense.addSlow
addSlow(d, hash) ==
    LET idx == index(hash, m(d))
        rho == rhoOf(hash)
    IN  IF get(d, idx) >= rho THEN d ELSE set(d, idx, rho)

\* Dense.Add storing rho whenever it differs from the register.
DenseAddNoMax(d, hash) ==
    LET idx == index(hash, m(d))
        rho == rhoOf(hash)
    IN  IF get(d, idx) = rho THEN [d |-> d, changed |-> FALSE]
        ELSE [d |-> set(d, idx, rho), changed |-> TRUE]

\* Dense.Add with the three bytes of register d written without their
\* high six bits.
DenseAddClobber(d, hash) ==
    LET idx == index(hash, m(d))
        rho == rhoOf(hash)
        bp == (idx \div 4) * 3
        s == idx % 4
    IN  IF s # 3
        THEN LET b == At(d, bp + s)
             IN  IF (b \div 4) < rho
                 THEN [d |-> Put(d, bp + s, (b % 4) + (rho * 4)), changed |-> TRUE]
                 ELSE [d |-> d, changed |-> FALSE]
        ELSE IF lowReg(d, bp) >= rho
             THEN [d |-> d, changed |-> FALSE]
             ELSE [d |-> Put(Put(Put(d, bp, rho \div 16), bp + 1, (rho \div 4) % 4),
                             bp + 2, rho % 4),
                   changed |-> TRUE]

\* Dense.Add: the new register array and whether a register changed.
DenseAdd(d, hash) ==
    LET idx == index(hash, m(d))
        rho == rhoOf(hash)
        bp == (idx \div 4) * 3
        s == idx % 4
    IN  IF s # 3
        THEN LET b == At(d, bp + s)
             IN  IF (b \div 4) < rho
                 THEN [d |-> Put(d, bp + s, (b % 4) + (rho * 4)), changed |-> TRUE]
                 ELSE [d |-> d, changed |-> FALSE]
        ELSE IF lowReg(d, bp) >= rho
             THEN [d |-> d, changed |-> FALSE]
             ELSE [d |-> Put(Put(Put(d,
                            bp, ((At(d, bp) \div 4) * 4) + (rho \div 16)),
                            bp + 1, ((At(d, bp + 1) \div 4) * 4) + ((rho \div 4) % 4)),
                            bp + 2, ((At(d, bp + 2) \div 4) * 4) + (rho % 4)),
                   changed |-> TRUE]

\* mergeByte keeping the high six bits of h whatever those of g are.
mergeByteKeepX(d, e, i, useX) ==
    ((At(d, i) \div 4) * 4) + (IF useX THEN At(d, i) % 4 ELSE At(e, i) % 4)

\* Dense.Merge on arrays of equal length: one 3-byte group.
mergeByte(d, e, i, useX) ==
    LET x == At(d, i)
        y == At(e, i)
        r == IF (x \div 4) > (y \div 4) THEN (x \div 4) * 4 ELSE (y \div 4) * 4
    IN  r + (IF useX THEN x % 4 ELSE y % 4)

\* Dense.Merge taking the low two bits of every byte from g.
DenseMergeTakeY(d, e) ==
    AsSeq([j \in 1..Len(d) |-> mergeByte(d, e, j - 1, FALSE)], Len(d))

DenseMerge(d, e) ==
    AsSeq([j \in 1..Len(d) |->
            LET i == j - 1
                bp == (i \div 3) * 3
            IN  mergeByte(d, e, i, lowReg(d, bp) > lowReg(e, bp))], Len(d))

\* The loop of Dense.EstimateCardinality counting V: v0, v1, v2 and v2 again.
RECURSIVE zeroCount(_, _)
zeroCount(d, i) ==
    IF i >= Len(d) THEN 0
    ELSE LET v0 == At(d, i) \div 4
             v1 == At(d, i + 1) \div 4
             v2 == At(d, i + 2) \div 4
         IN  (IF v0 = 0 THEN 1 ELSE 0) + (IF v1 = 0 THEN 1 ELSE 0)
               + (IF v2 = 0 THEN 1 ELSE 0) + (IF v2 = 0 THEN 1 ELSE 0)
               + zeroCount(d, i + 3)

threshold(mm) ==
    CASE mm = 16 -> 13
      [] mm = 32 -> 40
      [] mm = 64 -> 70
      [] mm = 128 -> 180
      [] mm = 256 -> 225
      [] mm = 512 -> 1000
      [] mm = 1024 -> 1750
      [] mm = 2048 -> 4600
      [] mm = 4096 -> 10 * 1000
      [] mm = 8192 -> 22 * 1000
      [] mm = 16384 -> 45 * 1000
      [] mm = 32768 -> 80 * 1000
      [] mm = 65536 -> 150 * 1000
      [] mm = 131072 -> 400 * 1000
      [] mm = 262144 -> 700 * 1000
      [] mm = 524288 -> 1850 * 1000
      [] mm = 1048576 -> 4200 * 1000
      [] OTHER -> mm * 8

\* linearCounting(m, V) = m * ln(m / V) in thousandths, rounded down; the
\* float64 values for the register counts of the model (m = 16, 32, 256).
LinearCounting16 ==
    <<44361, 33271, 26783, 22180, 18610, 15693, 13226, 11090,
      9205, 7520, 5995, 4602, 3322, 2136, 1032, 0>>

LinearCounting32 ==
    <<110903, 88722, 75747, 66542, 59401, 53567, 48634, 44361,
      40592, 37220, 34170, 31386, 28825, 26453, 24245, 22180,
      20240, 18411, 16681, 15040, 13478, 11990, 10567, 9205,
      7899, 6644, 5436, 4273, 3150, 2065, 1015, 0>>

LinearCounting256 ==
    <<1419565, 1242119, 1138320, 1064674, 1007549, 960875, 921412, 887228,
      857075, 830103, 805704, 783429, 762938, 743966, 726304, 709782,
      694262, 679630, 665789, 652657, 640167, 628258, 616878, 605983,
      595533, 585492, 575831, 566521, 557537, 548858, 540464, 532337,
      524459, 516817, 509396, 502184, 495170, 488343, 481693, 475212,
      468890, 462722, 456698, 450812, 445059, 439433, 433927, 428537,
      423259, 418087, 413018, 408047, 403170, 398385, 393688, 389075,
      384544, 380092, 375715, 371413, 367181, 363019, 358922, 354891,
      350922, 347013, 343164, 339371, 335634, 331950, 328319, 324738,
      321207, 317724, 314288, 310897, 307551, 304247, 300986, 297766,
      294586, 291445, 288342, 285276, 282246, 279252, 276292, 273367,
      270474, 267614, 264785, 261987, 259219, 256481, 253772, 251092,
      248439, 245813, 243214, 240641, 238094, 235572, 233074, 230601,
      228151, 225725, 223321, 220939, 218580, 216242, 213925, 211629,
      209354, 207098, 204862, 202646, 200448, 198270, 196109, 193967,
      191843, 189736, 187646, 185573, 183517, 181477, 179453, 177445,
      175453, 173476, 171514, 169568, 167636, 165718, 163815, 161925,
      160050, 158188, 156340, 154504, 152682, 150873, 149077, 147293,
      145521, 143762, 142014, 140279, 138555, 136842, 135141, 133452,
      131773, 130105, 128448, 126802, 125166, 123541, 121925, 120320,
      118725, 117140, 115565, 113999, 112443, 110896, 109359, 107830,
      106311, 104801, 103299, 101806, 100322, 98847, 97380, 95921,
      94471, 93028, 91594, 90168, 88750, 87339, 85936, 84541,
      83154, 81774, 80401, 79036, 77678, 76327, 74983, 73646,
      72316, 70993, 69677, 68368, 67065, 65769, 64479, 63196,
      61919, 60648, 59384, 58126, 56874, 55629, 54389, 53155,
      51927, 50705, 49489, 48279, 47074, 45875, 44682, 43494,
      42311, 41134, 39963, 38796, 37635, 36480, 35329, 34184,
      33043, 31908, 30778, 29652, 28532, 27417, 26306, 25200,
      24099, 23003, 21911, 20824, 19742, 18664, 17590, 16521,
      15457, 14397, 13341, 12290, 11243, 10200, 9162, 8127,
      7097, 6071, 5049, 4031, 3017, 2007, 1001, 0>>

linearCounting(mm, V) ==
    CASE mm = 16 -> LinearCounting16[V]
      [] mm = 32 -> LinearCounting32[V]
      [] mm = 256 -> LinearCounting256[V]

\* The result of the branch of correctedEstimate that returns e, the raw
\* estimate alpha*m*m/invSum less estimateBias(e, p), where the model does
\* not compute it: the bias tables are not among the sources.  No operation
\* of the model returns it (LinearCountingRange and RawEstimateUnused
\* below); the value only marks the branch.
RawEstimate == -1

\* The value standing for every estimate of 2^62 and more, up to
\* math.MaxUint64: as a uint64 it has one of its two top bits set.
Huge == -2

\* alpha() * m * m in thousandths.
alphaMM(mm) ==
    CASE mm = 16 -> 172288
      [] mm = 32 -> 713728

\* e of correctedEstimate, rounded, where every register that is not zero
\* holds 59 or more: such registers add less than 2^-53 to invSum, so with z
\* zero registers invSum is z in float64 and e is alpha*m*m/z (no bias is
\* subtracted once e >= 5m), and with none e is at least alpha*m*2^59, above
\* 2^62.
rawEstimate(d) ==
    LET mm == m(d)
        z == Cardinality({i \in 0..(mm - 1) : get(d, i) = 0})
        tiny == \A i \in 0..(mm - 1) : get(d, i) = 0 \/ get(d, i) >= 59
    IN  IF tiny /\ z = 0 THEN Huge
        ELSE IF tiny /\ (alphaMM(mm) \div z) >= 5 * mm * 1000
        THEN ((alphaMM(mm) \div z) + 500) \div 1000
        ELSE RawEstimate

\* correctedEstimate followed by math.Floor(est + 0.5).
DenseEstimate(d) ==
    LET V == zeroCount(d, 0)
    IN  IF V # 0 /\ linearCounting(m(d), V) <= threshold(m(d)) * 1000
        THEN (linearCounting(m(d), V) + 500) \div 1000
        ELSE rawEstimate(d)

(***************************************************************************)
(* Sparse engine (sparse.go): s is the whole buffer; slot 0 is the header *)
(* and the hashes are in slots 1..size.                                   *)
(***************************************************************************)
ok == 0

full == 1

\* sortable.Less: byte-wise comparison from the first stored byte on.
RECURSIVE lessFrom(_, _, _)
lessFrom(a, b, k) ==
    IF k >= 8 THEN FALSE
    ELSE IF At(a, k) < At(b, k) THEN TRUE
    ELSE IF At(a, k) > At(b, k) THEN FALSE
    ELSE lessFrom(a, b, k + 1)

Less(a, b) == lessFrom(a, b, 0)

\* For each slot of the slots u, the number of slots that are less and the
\* number of slots equal to it.
slotRanks(u) ==
    [less |-> AsSeq([i \in 1..Len(u) |->
                       Cardinality({k \in 1..Len(u) : Less(u[k], u[i])})], Len(u)),
     same |-> AsSeq([i \in 1..Len(u) |->
                       Cardinality({k \in 1..Len(u) : u[k] = u[i]})], Len(u))]

\* The slots u in ascending order, given their ranks rk: slot i goes to the
\* positions after the slots that are less, as many as there are slots
\* equal to it.
placeSlots(u, rk) ==
    AsSeq([j \in 1..Len(u) |->
             u[CHOOSE i \in 1..Len(u) : rk.less[i] < j /\ j <= rk.less[i] + rk.same[i]]],
          Len(u))

\* sort.Sort(t): the slots of t in ascending order of Less (equal slots are
\* identical bytes, so the order is unique); t and its ranks are computed
\* once.
sortSlots(t) ==
    CHOOSE r \in UNION {{placeSlots(u, rk) : rk \in {slotRanks(u)}} : u \in {t}} : TRUE

\* The positions of the sorted slots u that the "Remove dups" loop keeps,
\* the first slot and every slot that differs from the slot before it, and
\* for each position the number of kept slots up to it.
keptSlots(u) ==
    [kept |-> {j \in 1..Len(u) : j = 1 \/ u[j - 1] # u[j]},
     pos |-> AsSeq([j \in 1..Len(u) |->
                      Cardinality({k \in 1..j : k = 1 \/ u[k - 1] # u[k]})], Len(u))]

\* The kept slots of u moved down in their order, and their number to.
moveKept(u, kp) ==
    [t |-> AsSeq([q \in 1..Cardinality(kp.kept) |->
                    u[CHOOSE j \in kp.kept : kp.pos[j] = q]], Cardinality(kp.kept)),
     to |-> Cardinality(kp.kept)]

\* The "Remove dups" loop of sparse.sort over the sorted slots t: the slots
\* it keeps and their number.
removeDups(t) ==
    CHOOSE r \in UNION {{moveKept(u, kp) : kp \in {keptSlots(u)}} : u \in {t}} : TRUE

\* The slots 1..n of s as a sequence of hashes.
slots(s, n) == AsSeq([i \in 1..n |-> hashAt(s, i)], n)

\* sparse.sort without the removal of duplicates.
sortKeepDups(s) ==
    LET sz == size(s)
        t == sortSlots(slots(s, sz))
        body == AsSeq([i \in 1..Len(s) |->
                        LET sl == (i - 1) \div 8
                        IN  IF sl >= 1 /\ sl <= sz THEN t[sl][((i - 1) % 8) + 1] ELSE s[i]],
                      Len(s))
    IN  setSize(body, sz, 0)

\* sparse.sort without the clearing of the slack: the freed slots keep the
\* sorted hashes that were there.
sortNoClear(s) ==
    LET sz == size(s)
        t == sortSlots(slots(s, sz))
        r == removeDups(t)
        body == AsSeq([i \in 1..Len(s) |->
                        LET sl == (i - 1) \div 8
                        IN  IF sl >= 1 /\ sl <= r.to THEN r.t[sl][((i - 1) % 8) + 1]
                            ELSE IF sl >= 1 /\ sl <= sz THEN t[sl][((i - 1) % 8) + 1]
                            ELSE s[i]],
                      Len(s))
    IN  setSize(body, r.to, 0)

\* sparse.sort
sort(s) ==
    LET sz == size(s)
        r == removeDups(sortSlots(slots(s, sz)))
        body == AsSeq([i \in 1..Len(s) |->
                        LET sl == (i - 1) \div 8
                        IN  IF sl >= 1 /\ sl <= r.to THEN r.t[sl][((i - 1) % 8) + 1]
                            ELSE IF sl >= 1 /\ sl <= sz THEN 0
                            ELSE s[i]],
                      Len(s))
    IN  setSize(body, r.to, 0)

\* sparse.Add with the retry asking for one free slot more.
sparseAddWiderPadding(s, hash) ==
    LET sz == size(s) + 1
        cap == Len(s) \div 8
    IN  IF sz < cap
        THEN [s |-> setSize(putHash(s, sz, hash), sz, 1), res |-> ok]
        ELSE IF ~dirty(s)
        THEN [s |-> s, res |-> full]
        ELSE LET t == sort(s)
                 sz2 == size(t)
             IN  IF sz2 + 101 < cap
                 THEN [s |-> setSize(putHash(t, sz2 + 1, hash), sz2 + 1, 1), res |-> ok]
                 ELSE [s |-> t, res |-> full]

\* sparse.Add: the new buffer and ok or full.
sparseAdd(s, hash) ==
    LET sz == size(s) + 1
        cap == Len(s) \div 8
    IN  IF sz < cap
        THEN [s |-> setSize(putHash(s, sz, hash), sz, 1), res |-> ok]
        ELSE IF ~dirty(s)
        THEN [s |-> s, res |-> full]
        ELSE LET t == sort(s)
                 sz2 == size(t)
             IN  IF sz2 + 100 < cap
                 THEN [s |-> setSize(putHash(t, sz2 + 1, hash), sz2 + 1, 1), res |-> ok]
                 ELSE [s |-> t, res |-> full]

\* sparse.EstimateCardinality without the deferred sort.
sparseEstimateNoSort(s) == [h |-> s, card |-> size(s)]

\* sparse.EstimateCardinality: the buffer afterwards and the count.
sparseEstimate(s) ==
    LET t == IF dirty(s) THEN sort(s) ELSE s
    IN  [h |-> t, card |-> size(t)]

(***************************************************************************)
(* Hybrid facade (hll.go).                                                *)
(***************************************************************************)
header(b) == Slice(b, 0, 8)

payload(b) == Slice(b, 8, Len(b))

\* mergeIntoDense(d, s): dense add of the hashes in slots i..sz of s.
RECURSIVE mergeIntoDenseFrom(_, _, _)
mergeIntoDenseFrom(d, s, i) ==
    IF i > size(s) THEN d
    ELSE mergeIntoDenseFrom(DenseAdd(d, hashAt(s, i)).d, s, i + 1)

\* The replay starting at the second stored hash.
mergeIntoDenseSkipFirst(d, s) == mergeIntoDenseFrom(d, s, 2)

mergeIntoDense(d, s) == mergeIntoDenseFrom(d, s, 1)

\* mergeIntoSparse(t, s): sparse add of the hashes of s until one is full.
RECURSIVE mergeIntoSparseFrom(_, _, _)
mergeIntoSparseFrom(t, s, i) ==
    IF i > size(s) THEN [s |-> t, res |-> ok]
    ELSE LET r == sparseAdd(t, hashAt(s, i))
         IN  IF r.res = full THEN r ELSE mergeIntoSparseFrom(r.s, s, i + 1)

mergeIntoSparse(t, s) == mergeIntoSparseFrom(t, s, 1)

\* toDense leaving the new header clean.
toDenseClean(s) ==
    Put(CopyAt(s, 8, mergeIntoDense(Zeros(Len(s) - 8), s)), 0, 64)

\* toDense: the registers replace the payload and byte 0 becomes dirty + dense.
toDense(s) ==
    Put(CopyAt(s, 8, mergeIntoDense(Zeros(Len(s) - 8), s)), 0, 128 + 64)

\* h[0] = 1 << 7 in place of h[0] |= 1 << 7.
markDirtyOnly(b) == Put(b, 0, 128)

\* The dirty bit left as it is.
markDirtyNever(b) == b

\* h[0] |= 1 << 7
markDirty(b) == Put(b, 0, (At(b, 0) % 128) + 128)

\* HLL.Add marking a dense buffer dirty whatever Dense.Add reports.
AddAlwaysDirty(b, hash) ==
    IF isDense(b)
    THEN markDirty(CopyAt(b, 8, DenseAdd(payload(b), hash).d))
    ELSE LET r == sparseAdd(b, hash)
         IN  IF r.res = ok THEN r.s
             ELSE LET t == toDense(r.s)
                  IN  CopyAt(t, 8, DenseAdd(payload(t), hash).d)

\* HLL.Add
Add(b, hash) ==
    IF isDense(b)
    THEN LET r == DenseAdd(payload(b), hash)
         IN  IF r.changed THEN markDirty(CopyAt(b, 8, r.d)) ELSE b
    ELSE LET r == sparseAdd(b, hash)
         IN  IF r.res = ok THEN r.s
             ELSE LET t == toDense(r.s)
                  IN  CopyAt(t, 8, DenseAdd(payload(t), hash).d)

\* len(h) > len(g) in place of len(h) != len(g).
sizeMismatchLonger(b, o) == Len(b) > Len(o)

\* len(h) != len(g)
sizeMismatch(b, o) == Len(b) # Len(o)

\* The argument g of h.Merge(g) sorted on the way, as EstimateCardinality
\* sorts a sparse buffer.
mergeOtherSorted(b, o) ==
    IF ~sizeMismatch(b, o) /\ ~isDense(o) /\ dirty(o) THEN sort(o) ELSE o

\* The argument g of h.Merge(g) after the call: Merge reads g[0] and hands g
\* to Dense.Merge, mergeIntoDense and mergeIntoSparse, which read it (the
\* last two through a local slice that they advance) and store only into
\* their receiver.
mergeOther(b, o) == o

\* HLL.Merge(g) on h: the buffers h and g afterwards and whether an error is
\* returned.
Merge(b, o) ==
    IF sizeMismatch(b, o) THEN [h |-> b, g |-> mergeOther(b, o), err |-> TRUE]
    ELSE IF isDense(b) /\ isDense(o)
    THEN [h |-> markDirty(CopyAt(b, 8, DenseMerge(payload(b), payload(o)))), g |-> mergeOther(b, o), err |-> FALSE]
    ELSE IF ~isDense(b) /\ ~isDense(o)
    THEN LET r == mergeIntoSparse(b, o)
         IN  IF r.res = ok THEN [h |-> r.s, g |-> mergeOther(b, o), err |-> FALSE]
             ELSE LET t == toDense(r.s)
                  IN  [h |-> Put(CopyAt(t, 8, mergeIntoDense(payload(t), o)), 0, 128 + 64),
                       g |-> mergeOther(b, o), err |-> FALSE]
    ELSE IF isDense(b)
    THEN [h |-> markDirty(CopyAt(b, 8, mergeIntoDense(payload(b), o))), g |-> mergeOther(b, o), err |-> FALSE]
    ELSE LET t == toDense(b)
         IN  [h |-> CopyAt(t, 8, DenseMerge(payload(t), payload(o))), g |-> mergeOther(b, o), err |-> FALSE]

\* binary.BigEndian.Uint64(h) & ^mask, the cached estimate of a dense header.
cached(b) ==
    IF (At(b, 0) % 64) = 0 /\ At(b, 1) = 0 /\ At(b, 2) = 0 /\ At(b, 3) = 0 /\ At(b, 4) < 128
    THEN (At(b, 4) * 16777216) + (At(b, 5) * 65536) + (At(b, 6) * 256) + At(b, 7)
    ELSE Saturated

\* The test card&mask != 0 never taken.
tooLargeNever(card) == FALSE

\* card & mask != 0 for mask = 1<<63 + 1<<62.
tooLarge(card) == (((card \div 65536) \div 65536) \div 65536) \div 16384 # 0

\* PutUint64(h, card | 1<<62 | 1<<63): the dirty bit is kept.
putCachedDirty(b, card) ==
    [b EXCEPT ![1] = 128 + 64, ![2] = 0, ![3] = 0, ![4] = 0,
              ![5] = card \div 16777216,
              ![6] = (card \div 65536) % 256,
              ![7] = (card \div 256) % 256,
              ![8] = card % 256]

\* binary.BigEndian.PutUint64(h, card | 1<<62) for card < 2^31.
putCached(b, card) ==
    [b EXCEPT ![1] = 64, ![2] = 0, ![3] = 0, ![4] = 0,
              ![5] = card \div 16777216,
              ![6] = (card \div 65536) % 256,
              ![7] = (card \div 256) % 256,
              ![8] = card % 256]

\* HLL.EstimateCardinality: the buffer afterwards and the value returned.
EstimateCardinality(b) ==
    IF isDense(b)
    THEN IF ~dirty(b) THEN [h |-> b, card |-> cached(b)]
         ELSE LET card == DenseEstimate(payload(b))
              IN  IF tooLarge(card) THEN [h |-> b, card |-> card]
                  ELSE [h |-> putCached(b, card), card |-> card]
    ELSE sparseEstimate(b)

\* Reset clearing the first 8 bytes only.
ResetHeader(b) == CopyAt(b, 0, Zeros(8))

\* HLL.Reset
Reset(b) == Zeros(Len(b))

(***************************************************************************)
(* Sizing and validation (dense.go, hll.go).                              *)
(***************************************************************************)
\* DenseSizeByP accepting p = 26.
DenseSizeByPWide(p) ==
    IF p < 4 \/ p > 26 THEN [size |-> 0, err |-> TRUE]
    ELSE [size |-> ((2 ^ p) * 3) \div 4, err |-> FALSE]

\* DenseSizeByP: (1 << p * 3) >> 2, or an error.
DenseSizeByP(p) ==
    IF p < 4 \/ p > 25 THEN [size |-> 0, err |-> TRUE]
    ELSE [size |-> ((2 ^ p) * 3) \div 4, err |-> FALSE]

SizeByP(p) ==
    LET r == DenseSizeByP(p)
    IN  IF r.err THEN [size |-> 0, err |-> TRUE] ELSE [size |-> r.size + 8, err |-> FALSE]

\* m&(m-1) != 0 for m >= 0.
RECURSIVE notPowerOfTwo(_)
notPowerOfTwo(mm) ==
    IF mm <= 1 THEN FALSE
    ELSE IF mm % 2 = 1 THEN TRUE
    ELSE notPowerOfTwo(mm \div 2)

\* for z := m; z != 0; z >>= 1 { p++ }
RECURSIVE bitLen(_)
bitLen(z) == IF z = 0 THEN 0 ELSE 1 + bitLen(z \div 2)

\* The p that IsValid derives from m: its bit length less one, in a byte.
pOf(mm) == (bitLen(mm) + 255) % 256

\* IsValid with len(h) <= 8+8*int(sz) as the test of the sparse count.
isValidStrict(n, hdr) ==
    IF n < 8 THEN FALSE
    ELSE IF (n - 8) % 3 # 0 THEN FALSE
    ELSE LET mm == ((n - 8) \div 3) * 4
             p == pOf(mm)
         IN  IF notPowerOfTwo(mm) THEN FALSE
             ELSE IF p < 4 \/ p > 25 THEN FALSE
             ELSE IF (At(hdr, 0) \div 64) % 2 = 0 /\ n <= 8 + (8 * size(hdr)) THEN FALSE
             ELSE TRUE

\* IsValid with len(h) < 8*int(sz) as the test of the sparse count, the
\* header left out of the length the hashes need.
isValidNoHeader(n, hdr) ==
    IF n < 8 THEN FALSE
    ELSE IF (n - 8) % 3 # 0 THEN FALSE
    ELSE LET mm == ((n - 8) \div 3) * 4
             p == pOf(mm)
         IN  IF notPowerOfTwo(mm) THEN FALSE
             ELSE IF p < 4 \/ p > 25 THEN FALSE
             ELSE IF (At(hdr, 0) \div 64) % 2 = 0 /\ n < 8 * size(hdr) THEN FALSE
             ELSE TRUE

\* HLL.IsValid on a buffer of length n whose first bytes are hdr: TRUE iff
\* it returns nil.  byte(p) wraps, so m = 0 gives p = 255.
isValid(n, hdr) ==
    IF n < 8 THEN FALSE
    ELSE IF (n - 8) % 3 # 0 THEN FALSE
    ELSE LET mm == ((n - 8) \div 3) * 4
             p == pOf(mm)
         IN  IF notPowerOfTwo(mm) THEN FALSE
             ELSE IF p < 4 \/ p > 25 THEN FALSE
             ELSE IF (At(hdr, 0) \div 64) % 2 = 0 /\ n < 8 + (8 * size(hdr)) THEN FALSE
             ELSE TRUE

IsValid(b) == isValid(Len(b), SubSeq(b, 1, Min(4, Len(b))))

(***************************************************************************)
(* The state machine.  h and g are two HLL buffers made by the caller     *)
(* (make(HLL, s), optionally with the mode bit preset as the tests do);    *)
(* the operations of the package are applied to them in any order, h being *)
(* the receiver and g the argument of Merge.  The other variables record   *)
(* what the properties speak about:                                        *)
(*   all    a buffer of the size of h that receives, through Add, every    *)
(*          hash added to h or g while phase = "fill";                     *)
(*   adds   the number of these Add calls;                                 *)
(*   added  the hashes put into each buffer since it was all zero;         *)
(*   last   the last operation, the value it returned (an estimate, or 1   *)
(*          for an error) and byte 0 of its buffer before it;              *)
(*   mono   for h: whether only Add and EstimateCardinality were applied   *)
(*          since it was made all zero, and the last two estimates then    *)
(*          returned, each with the mode it was returned in;               *)
(*   phase  "fill" while h and g, both made all zero and of one size, have *)
(*          only seen Add and EstimateCardinality, "merged" after the      *)
(*          h.Merge(g) that follows, "off" otherwise;                      *)
(*   probe  the result of the last SizeByP or IsValid call on a buffer the  *)
(*          caller has just made, with the length and header of the buffer. *)
(***************************************************************************)
\* The precisions whose buffers the model builds.
ModelP == {4, 5}

\* The hashes the callers add: the value 1, index 1 (register b), whose 63
\* leading zeros give rho 64, capped at 63; index 3 (register d) with rho 3;
\* index 3 again with rho 2.
HashA == <<1, 0, 0, 0, 0, 0, 0, 0>>

HashB == <<3, 0, 0, 0, 0, 0, 0, 32>>

HashC == <<3, 1, 0, 0, 0, 0, 0, 64>>

Hashes == {HashA, HashB, HashC}

\* The largest precision SizeByP is called with.
MaxProbeP == 27

\* The number of Add calls before h.Merge(g) under SpecUnion.
MaxUnionAdds == 4

\* The hashes added to the register arrays of SpecDense: HashA and HashB,
\* and index 0 with rho 8, index 2 with rho 63, index 6 with rho 12 and
\* index 15 with rho 1.
DenseHashes ==
    {HashA, HashB, <<0, 0, 0, 0, 0, 0, 0, 1>>, <<2, 0, 0, 0, 0, 0, 0, 0>>,
     <<6, 0, 0, 0, 0, 0, 16, 0>>, <<15, 0, 0, 0, 0, 0, 0, 128>>}

\* The registers and the values that set is called with under SpecDense: the
\* four registers of the first group and register d of the second; the
\* values with no, alternate and all bits set.
RegIndexes == {0, 1, 2, 3, 7}

RegValues == {0, 21, 42, 63}

\* The number of calls on the register arrays under SpecDense.
MaxDenseOps == 3

\* xorShift64StarRound(0), (1) and (2) of the tests: 0,
\* 0x47e4ce4b896cdd1d and 0x8fc99c9712d9ba3a, which at precision 8 reach
\* registers 0 (a), 29 (b) and 58 (c).
XsHashes ==
    {<<0, 0, 0, 0, 0, 0, 0, 0>>,
     <<29, 221, 108, 137, 75, 206, 228, 71>>,
     <<58, 186, 217, 18, 151, 156, 201, 143>>}

\* The number of Add calls under SpecS3.
MaxS3Adds == 4

\* The hashes added under SpecFill: the values 0..15, one per register of
\* a buffer of precision 4, with rho 61 to 63, and 16, which reaches
\* register 0 with rho 60.
FillHashes == {<<v, 0, 0, 0, 0, 0, 0, 0>> : v \in 0..16}

\* The largest of the small buffer lengths IsValid is called with.
MaxProbeLen == 60

NoProbe ==
    [p |-> -1, size |-> 0, err |-> FALSE, valid |-> FALSE, card |-> 0, hdr |-> <<>>,
     dsize |-> 0, derr |-> FALSE, backP |-> -1]

NoMono == [live |-> FALSE, est |-> -1, sparse |-> TRUE, prev |-> -1, prevSparse |-> TRUE]

\* make(HLL, s) for s = SizeByP(p), with h[0] = mode.
Fresh(p, mode) == Put(Zeros(SizeByP(p).size), 0, mode)

Op(op, buf, hash, ret, pre) ==
    [op |-> op, buf |-> buf, hash |-> hash, ret |-> ret, pre |-> pre]

Init ==
    /\ h \in {Fresh(p, mode) : p \in ModelP, mode \in {0, 64}}
    /\ g \in {Fresh(p, mode) : p \in ModelP, mode \in {0, 64}}
    /\ all = Zeros(Len(h))
    /\ adds = 0
    /\ added = [h |-> {}, g |-> {}]
    /\ last = Op("Init", "-", <<>>, 0, 0)
    /\ mono = NoMono
    /\ phase = "off"
    /\ probe = NoProbe

\* One initially-zero buffer h that only Add and EstimateCardinality touch.
InitAdd ==
    /\ h \in {Fresh(p, 0) : p \in ModelP}
    /\ g = Zeros(Len(h))
    /\ all = Zeros(Len(h))
    /\ adds = 0
    /\ added = [h |-> {}, g |-> {}]
    /\ last = Op("Init", "-", <<>>, 0, 0)
    /\ mono = [NoMono EXCEPT !.live = TRUE]
    /\ phase = "off"
    /\ probe = NoProbe

\* One buffer h of precision 4, made sparse or dense, that is filled
\* register after register; adds is the number of registers reached.
InitFill ==
    /\ h \in {Fresh(4, mode) : mode \in {0, 64}}
    /\ g = Zeros(Len(h))
    /\ all = Zeros(Len(h))
    /\ adds = 0
    /\ added = [h |-> {}, g |-> {}]
    /\ last = Op("Init", "-", <<>>, 0, 0)
    /\ mono = NoMono
    /\ phase = "off"
    /\ probe = NoProbe

\* Two initially-zero buffers of one size, and the buffer all beside them.
InitUnion ==
    /\ h \in {Fresh(p, 0) : p \in ModelP}
    /\ g = Zeros(Len(h))
    /\ all = Zeros(Len(h))
    /\ adds = 0
    /\ added = [h |-> {}, g |-> {}]
    /\ last = Op("Init", "-", <<>>, 0, 0)
    /\ mono = NoMono
    /\ phase = "fill"
    /\ probe = NoProbe

\* h.Add(x)
AddH ==
    \E x \in Hashes :
        /\ h' = Add(h, x)
        /\ all' = IF phase = "fill" THEN Add(all, x) ELSE all
        /\ adds' = IF phase = "fill" THEN adds + 1 ELSE adds
        /\ added' = [added EXCEPT !.h = @ \cup {x}]
        /\ last' = Op("Add", "h", x, 0, At(h, 0))
        /\ phase' = IF phase = "fill" THEN "fill" ELSE "off"
        /\ probe' = NoProbe
        /\ UNCHANGED <<g, mono>>

\* g.Add(x)
AddG ==
    \E x \in Hashes :
        /\ g' = Add(g, x)
        /\ all' = IF phase = "fill" THEN Add(all, x) ELSE all
        /\ adds' = IF phase = "fill" THEN adds + 1 ELSE adds
        /\ added' = [added EXCEPT !.g = @ \cup {x}]
        /\ last' = Op("Add", "g", x, 0, At(g, 0))
        /\ phase' = IF phase = "fill" THEN "fill" ELSE "off"
        /\ probe' = NoProbe
        /\ UNCHANGED <<h, mono>>

\* h.EstimateCardinality()
EstimateH ==
    LET r == EstimateCardinality(h)
    IN  /\ h' = r.h
        /\ last' = Op("Estimate", "h", <<>>, r.card, At(h, 0))
        /\ mono' = IF mono.live
                   THEN [live |-> TRUE, est |-> r.card, sparse |-> IsSparse(h),
                         prev |-> mono.est, prevSparse |-> mono.sparse]
                   ELSE mono
        /\ probe' = NoProbe
        /\ UNCHANGED <<g, all, adds, added, phase>>

\* g.EstimateCardinality()
EstimateG ==
    LET r == EstimateCardinality(g)
    IN  /\ g' = r.h
        /\ last' = Op("Estimate", "g", <<>>, r.card, At(g, 0))
        /\ probe' = NoProbe
        /\ UNCHANGED <<h, all, adds, added, mono, phase>>

\* h.Reset()
ResetH ==
    /\ h' = Reset(h)
    /\ added' = [added EXCEPT !.h = {}]
    /\ last' = Op("Reset", "h", <<>>, 0, At(h, 0))
    /\ mono' = NoMono
    /\ phase' = "off"
    /\ all' = Zeros(Len(h))
    /\ adds' = 0
    /\ probe' = NoProbe
    /\ UNCHANGED g

\* g.Reset()
ResetG ==
    /\ g' = Reset(g)
    /\ added' = [added EXCEPT !.g = {}]
    /\ last' = Op("Reset", "g", <<>>, 0, At(g, 0))
    /\ phase' = "off"
    /\ all' = Zeros(Len(h))
    /\ adds' = 0
    /\ probe' = NoProbe
    /\ UNCHANGED <<h, mono>>

\* err := h.Merge(g)
MergeHG ==
    LET r == Merge(h, g)
        union == phase = "fill" /\ ~r.err
    IN  /\ h' = r.h
        /\ added' = IF r.err THEN added ELSE [added EXCEPT !.h = @ \cup added.g]
        /\ last' = Op("Merge", "h", <<>>, IF r.err THEN 1 ELSE 0, At(h, 0))
        /\ mono' = IF r.err THEN mono ELSE NoMono
        /\ phase' = IF union THEN "merged" ELSE "off"
        /\ all' = IF union THEN all ELSE Zeros(Len(h))
        /\ adds' = IF union THEN adds ELSE 0
        /\ probe' = NoProbe
        /\ g' = r.g

\* s, err := SizeByP(p), DenseSizeByP(p) and, when SizeByP succeeds,
\* IsValid (with the p it derives), IsSparse and EstimateCardinality on the
\* header of make(HLL, s); called before the buffers are used.
ProbeSize ==
    \E p \in (0 - 1)..MaxProbeP :
        LET r == SizeByP(p)
            dr == DenseSizeByP(p)
            hdr == Zeros(8)
        IN  /\ last.op \in {"Init", "Probe", "Valid"}
            /\ probe' = [p |-> p, size |-> r.size, err |-> r.err,
                         valid |-> ~r.err /\ isValid(r.size, hdr) /\ IsSparse(hdr),
                         card |-> IF r.err THEN -1 ELSE sparseEstimate(hdr).card,
                         hdr |-> hdr, dsize |-> dr.size, derr |-> dr.err,
                         backP |-> IF r.err THEN -1 ELSE pOf(((r.size - 8) \div 3) * 4)]
            /\ last' = Op("Probe", "-", <<>>, 0, 0)
            /\ UNCHANGED <<h, g, all, adds, added, mono, phase>>

\* The lengths of the buffers IsValid is called with: the small ones, and
\* 8 + 3 * 2^(p-2) for the larger p.
ProbeLens == (0..MaxProbeLen) \cup {8 + (3 * (2 ^ (p - 2))) : p \in 4..MaxProbeP}

\* h := make(HLL, n), the first four bytes set to a count c (around the
\* number of hashes that fit) with the dense bit e and the dirty bit d, then
\* h.IsValid(); called before the buffers are used.
ProbeValid ==
    \E n \in ProbeLens, e \in {0, 1}, d \in {0, 1} :
        LET cap == IF n < 8 THEN 0 ELSE (n - 8) \div 8
        IN  \E c \in {0, 1, cap, cap + 1, cap + 16777216} \cup {k \in {cap - 1} : k >= 0} :
                LET hdr == SubSeq(setSize(Zeros(4), c + (e * 1073741824), d), 1, Min(4, n))
                IN  /\ last.op \in {"Init", "Probe"}
                    /\ probe' = [NoProbe EXCEPT !.size = n, !.err = ~isValid(n, hdr),
                                                !.valid = isValid(n, hdr), !.hdr = hdr]
                    /\ last' = Op("Valid", "-", <<>>, 0, 0)
                    /\ UNCHANGED <<h, g, all, adds, added, mono, phase>>

Next ==
    \/ AddH
    \/ AddG
    \/ EstimateH
    \/ EstimateG
    \/ ResetH
    \/ ResetG
    \/ MergeHG
    \/ ProbeSize

Spec == Init /\ [][Next]_vars

NextAdd ==
    \/ AddH
    \/ EstimateH

SpecAdd == InitAdd /\ [][NextAdd]_vars

NextUnion ==
    \/ phase = "fill" /\ adds < MaxUnionAdds /\ AddH
    \/ phase = "fill" /\ adds < MaxUnionAdds /\ AddG
    \/ phase = "fill" /\ EstimateH
    \/ phase = "fill" /\ EstimateG
    \/ phase = "fill" /\ MergeHG
    \/ phase = "merged" /\ EstimateH

SpecUnion == InitUnion /\ [][NextUnion]_vars

\* The calls that need no buffer of the model, on top of two buffers of
\* precision 4 that stay as they were made.
InitProbe == Init /\ h = Fresh(4, 0) /\ g = Fresh(4, 0)

NextProbe ==
    \/ ProbeSize
    \/ ProbeValid

SpecProbe == InitProbe /\ [][NextProbe]_vars

\* Two register arrays h and g of precision 4, make(Dense, s) for
\* s = DenseSizeByP(4); adds counts the calls on them.
InitDense ==
    /\ h = Zeros(DenseSizeByP(4).size)
    /\ g = Zeros(DenseSizeByP(4).size)
    /\ all = Zeros(Len(h))
    /\ adds = 0
    /\ added = [h |-> {}, g |-> {}]
    /\ last = Op("Init", "-", <<>>, 0, 0)
    /\ mono = NoMono
    /\ phase = "off"
    /\ probe = NoProbe

\* h.set(i, v); last records i in place of a hash, and v.
SetH ==
    \E i \in RegIndexes, v \in RegValues :
        /\ adds < MaxDenseOps
        /\ h' = set(h, i, v)
        /\ adds' = adds + 1
        /\ last' = Op("set", "h", <<i>>, v, At(h, 0))
        /\ UNCHANGED <<g, all, added, mono, phase, probe>>

\* changed := h.Add(x) on the register array h.
DenseAddH ==
    \E x \in DenseHashes :
        /\ adds < MaxDenseOps
        /\ h' = DenseAdd(h, x).d
        /\ adds' = adds + 1
        /\ last' = Op("DenseAdd", "h", x, IF DenseAdd(h, x).changed THEN 1 ELSE 0, At(h, 0))
        /\ UNCHANGED <<g, all, added, mono, phase, probe>>

\* g.Add(x) on the register array g.
DenseAddG ==
    \E x \in DenseHashes :
        /\ adds < MaxDenseOps
        /\ g' = DenseAdd(g, x).d
        /\ adds' = adds + 1
        /\ last' = Op("DenseAdd", "g", x, IF DenseAdd(g, x).changed THEN 1 ELSE 0, At(g, 0))
        /\ UNCHANGED <<h, all, added, mono, phase, probe>>

\* h.Merge(g) on the register arrays, which have one length.
DenseMergeHG ==
    /\ adds < MaxDenseOps
    /\ h' = DenseMerge(h, g)
    /\ adds' = adds + 1
    /\ last' = Op("DenseMerge", "h", <<>>, 0, At(h, 0))
    /\ UNCHANGED <<g, all, added, mono, phase, probe>>

NextDense ==
    \/ SetH
    \/ DenseAddH
    \/ DenseAddG
    \/ DenseMergeHG

SpecDense == InitDense /\ [][NextDense]_vars

\* The buffers of TestMergeSparseDense: sp := make(HLL, s) for
\* s = SizeByP(8), here h, and dense, with dense[0] = 64, here g.
InitS3 ==
    /\ h = Fresh(8, 0)
    /\ g = Fresh(8, 64)
    /\ all = Zeros(Len(h))
    /\ adds = 0
    /\ added = [h |-> {}, g |-> {}]
    /\ last = Op("Init", "-", <<>>, 0, 0)
    /\ mono = NoMono
    /\ phase = "off"
    /\ probe = NoProbe

\* sp.Add(xorShift64StarRound(i))
AddXsH ==
    \E x \in XsHashes :
        /\ adds < MaxS3Adds
        /\ h' = Add(h, x)
        /\ adds' = adds + 1
        /\ added' = [added EXCEPT !.h = @ \cup {x}]
        /\ last' = Op("Add", "h", x, 0, At(h, 0))
        /\ probe' = NoProbe
        /\ UNCHANGED <<g, all, mono, phase>>

\* sp.Merge(dense) with the adds counted above left as they are.
MergeDenseIntoH ==
    /\ h' = Merge(h, g).h
    /\ g' = Merge(h, g).g
    /\ added' = [added EXCEPT !.h = @ \cup added.g]
    /\ last' = Op("Merge", "h", <<>>, IF Merge(h, g).err THEN 1 ELSE 0, At(h, 0))
    /\ probe' = NoProbe
    /\ UNCHANGED <<all, adds, mono, phase>>

NextS3 ==
    \/ AddXsH
    \/ MergeDenseIntoH
    \/ EstimateH

SpecS3 == InitS3 /\ [][NextS3]_vars

\* uint64(-i) for i in 1..65536, as the loops of sparse_test.go add it.
NegHash(i) ==
    <<(65536 - i) % 256, (65536 - i) \div 256, 255, 255, 255, 255, 255, 255>>

\* The hash slots of the sparse buffer s.
capacity(s) == (Len(s) \div 8) - 1

\* The numbers of distinct hashes after which a hash is repeated, around
\* the padding of sparse.Add.
RepeatFrom(s) == (capacity(s) - 101)..(capacity(s) - 98)

\* One sparse buffer h of precision 11, which has 192 hash slots, that only
\* sparse.Add and sparse.EstimateCardinality touch; adds is the number of
\* calls with a hash not added before.
InitCap ==
    /\ h = Fresh(11, 0)
    /\ g = Zeros(8)
    /\ all = Zeros(8)
    /\ adds = 0
    /\ added = [h |-> {}, g |-> {}]
    /\ last = Op("Init", "-", <<>>, 0, 0)
    /\ mono = NoMono
    /\ phase = "off"
    /\ probe = NoProbe

\* r := sparse(h).Add(uint64(-i)) for the next i, while no hash has been
\* repeated; last records r and the count before the call.
SparseAddNextH ==
    LET x == NegHash(adds + 1)
        r == sparseAdd(h, x)
    IN  /\ adds <= capacity(h)
        /\ size(h) = adds
        /\ h' = r.s
        /\ adds' = adds + 1
        /\ last' = Op("SparseAdd", "h", x, r.res, size(h))
        /\ UNCHANGED <<g, all, added, mono, phase, probe>>

\* r := sparse(h).Add(uint64(-1)) once more.
SparseAddAgainH ==
    LET x == NegHash(1)
        r == sparseAdd(h, x)
    IN  /\ adds \in RepeatFrom(h) \/ adds > capacity(h)
        /\ h' = r.s
        /\ last' = Op("SparseAdd", "h", x, r.res, size(h))
        /\ UNCHANGED <<g, all, adds, added, mono, phase, probe>>

\* sparse(h).EstimateCardinality() on a buffer with no free slot.
SparseEstimateH ==
    LET r == sparseEstimate(h)
    IN  /\ size(h) = capacity(h)
        /\ h' = r.h
        /\ last' = Op("SparseEstimate", "h", <<>>, r.card, size(h))
        /\ UNCHANGED <<g, all, adds, added, mono, phase, probe>>

NextCap ==
    \/ SparseAddNextH
    \/ SparseAddAgainH
    \/ SparseEstimateH

SpecCap == InitCap /\ [][NextCap]_vars

\* h.Add(x) for a hash of the next register of h, or of one reached before.
FillH ==
    \E x \in FillHashes :
        /\ index(x, 16) <= adds
        /\ h' = Add(h, x)
        /\ adds' = IF index(x, 16) = adds THEN adds + 1 ELSE adds
        /\ added' = [added EXCEPT !.h = @ \cup {x}]
        /\ last' = Op("Add", "h", x, 0, At(h, 0))
        /\ probe' = NoProbe
        /\ UNCHANGED <<g, all, mono, phase>>

\* The estimate of b is one the model computes: b is sparse, or clean, or its
\* registers do not need the bias tables.
Computable(b) ==
    (isDense(b) /\ dirty(b)) => DenseEstimate(payload(b)) # RawEstimate

NextFill ==
    \/ FillH
    \/ Computable(h) /\ EstimateH

SpecFill == InitFill /\ [][NextFill]_vars

\* The contents a buffer arrives with under SpecValid: every slot zero,
\* every slot HashB, or HashC, HashB and HashA in this (descending) order.
Fillings == {"zero", "same", "down"}

\* A buffer of n bytes as it may arrive from a file or the network: the
\* count c with the dense bit e and the dirty bit d in bytes 0-3, junk in
\* bytes 4-7 and in the bytes after the last slot, and the slots filled as
\* fill says, whatever the count.
Arriving(n, c, e, d, junk, fill) ==
    LET body == AsSeq([i \in 1..n |->
                        LET sl == (i - 1) \div 8
                        IN  IF sl = 0 THEN (IF i > 4 THEN junk ELSE 0)
                            ELSE IF sl > (n \div 8) - 1 THEN junk
                            ELSE IF fill = "zero" THEN 0
                            ELSE IF fill = "same" THEN HashB[((i - 1) % 8) + 1]
                            ELSE <<HashC, HashB, HashA>>[sl][((i - 1) % 8) + 1]],
                      n)
    IN  setSize(body, c + (e * 1073741824), d)

\* The buffers of length n that arrive as h: counts around the number of
\* slots, sparse or dense, dirty or clean, with junk wherever the slots are
\* not zero.
ArrivingH(n) ==
    {Arriving(n, c, e, d, IF fill = "zero" THEN 0 ELSE 255, fill) :
        c \in {0, (n \div 8) - 2, (n \div 8) - 1, n \div 8} \cap (0..(n \div 8)),
        e \in {0, 1}, d \in {0, 1}, fill \in Fillings}

\* The buffers of length n that arrive as g, the argument of Merge.
ArrivingG(n) ==
    {Arriving(n, c, e, d, 255, "down") :
        c \in {(n \div 8) - 1, n \div 8}, e \in {0, 1}, d \in {0, 1}}

\* Two buffers of one length, of precision 4 or 5, that have passed IsValid.
InitValid ==
    /\ h \in {b \in UNION {ArrivingH(SizeByP(p).size) : p \in ModelP} : IsValid(b)}
    /\ g \in {b \in ArrivingG(Len(h)) : IsValid(b)}
    /\ all = Zeros(Len(h))
    /\ adds = 0
    /\ added = [h |-> {}, g |-> {}]
    /\ last = Op("Init", "-", <<>>, 0, 0)
    /\ mono = NoMono
    /\ phase = "off"
    /\ probe = NoProbe

NextValid ==
    \/ AddH
    \/ Computable(h) /\ EstimateH
    \/ MergeHG

SpecValid == InitValid /\ [][NextValid]_vars

\* No state of the model takes the raw-estimate branch of correctedEstimate.
LinearCountingRange ==
    /\ isDense(h) => DenseEstimate(payload(h)) # RawEstimate
    /\ isDense(g) => DenseEstimate(payload(g)) # RawEstimate
    /\ isDense(all) => DenseEstimate(payload(all)) # RawEstimate

\* No EstimateCardinality of the model has returned the mark RawEstimate.
RawEstimateUnused == last.ret # RawEstimate

(***************************************************************************)
(* Properties.                                                            *)
(***************************************************************************)
\* The buffer the last operation was applied to.
Target == IF last.buf = "g" THEN g ELSE h

Estimate(b) == EstimateCardinality(b).card

\* C1: while a buffer is sparse, EstimateCardinality returns exactly the
\* number of distinct hashes put into it, by Add or by Merge, since it was
\* all zero.
C1_SparseEstimateExact ==
    /\ IsSparse(h) => Estimate(h) = Cardinality(added.h)
    /\ IsSparse(g) => Estimate(g) = Cardinality(added.g)

\* A sparse merge has left h unsorted with a duplicate: three stored hashes,
\* two of them distinct.
C1_Witness ==
    /\ last.op = "Merge" /\ last.buf = "h" /\ last.ret = 0
    /\ IsSparse(h) /\ dirty(h)
    /\ size(h) = 3 /\ Cardinality(added.h) = 2

\* C2: once the mode bit of a buffer is set, no Add, Merge or
\* EstimateCardinality on it clears it; only Reset does, and Reset leaves the
\* buffer all zero.
C2_ModeMonotonic ==
    [][/\ (isDense(h) /\ ~(last'.op = "Reset" /\ last'.buf = "h")) => isDense(h')
       /\ (isDense(g) /\ ~(last'.op = "Reset" /\ last'.buf = "g")) => isDense(g')
       /\ (last'.op = "Reset" /\ last'.buf = "h") => h' = Zeros(Len(h))
       /\ (last'.op = "Reset" /\ last'.buf = "g") => g' = Zeros(Len(g))]_vars

\* A Merge into a buffer that was already dense and clean has left it dense.
C2_Witness ==
    /\ last.op = "Merge" /\ last.ret = 0 /\ last.pre = 64
    /\ isDense(Target) /\ dirty(Target)

\* C3 as stated: after add(x), a second add(x) changes neither IsSparse nor
\* EstimateCardinality.
C3_AddIdempotent ==
    last.op = "Add" =>
        LET again == Add(Target, last.hash)
        IN  /\ IsSparse(again) = IsSparse(Target)
            /\ Estimate(again) = Estimate(Target)

\* C3 as amended: after add(x), a second add(x) that does not promote the
\* buffer (it is dense already, or still sparse afterwards) leaves
\* EstimateCardinality unchanged.
C3_AddIdempotentUnlessPromoted ==
    last.op = "Add" =>
        LET again == Add(Target, last.hash)
        IN  IsSparse(again) = IsSparse(Target) => Estimate(again) = Estimate(Target)

\* An Add has stored its hash a second time in a sparse buffer, and there is
\* room for a third copy.
C3_Witness ==
    /\ last.op = "Add" /\ IsSparse(Target) /\ dirty(Target)
    /\ size(Target) = 2 /\ hashAt(Target, 1) = hashAt(Target, 2)
    /\ IsSparse(Add(Target, last.hash))

\* C4 as stated: after h.Merge(g) on two buffers filled from all zero,
\* EstimateCardinality of h equals that of the single buffer all that
\* received every hash of both through Add, in whatever order.
C4_MergeEqualsUnion ==
    phase = "merged" => Estimate(h) = Estimate(all)

\* C4 as amended: the two estimates are equal whenever the merged buffer and
\* the single buffer are in the same mode.
C4_MergeEqualsUnionSameMode ==
    (phase = "merged" /\ IsSparse(h) = IsSparse(all)) => Estimate(h) = Estimate(all)

\* Two dense buffers have been merged, each holding a register the other
\* lacks, and the single buffer is dense as well.
C4_Witness ==
    /\ phase = "merged" /\ last.op = "Merge" /\ last.pre = 128 + 64
    /\ isDense(g) /\ isDense(all)
    /\ added.h = {HashA, HashB}
    /\ added.g \ {HashA} # {} /\ HashA \in added.g
    /\ Estimate(h) = 1

\* C5 as stated: on a buffer that only receives Add calls, an estimate is
\* never below the estimate returned before it.
C5_EstimateNeverDecreases ==
    (mono.live /\ mono.prev >= 0) => mono.prev <= mono.est

\* C5 as amended: an estimate is never below the estimate returned before it
\* in the same mode (both sparse, or both dense and computed by linear
\* counting).
C5_EstimateNeverDecreasesInMode ==
    (mono.live /\ mono.prev >= 0 /\ mono.prevSparse = mono.sparse) => mono.prev <= mono.est

\* Two estimates of a dense buffer, the second larger than the first.
C5_Witness ==
    /\ mono.live /\ last.op = "Estimate"
    /\ ~mono.prevSparse /\ ~mono.sparse
    /\ mono.prev >= 0 /\ mono.prev < mono.est

\* C6: for every P in 4..25 an all-zero buffer of length SizeByP(P) passes
\* IsValid, is sparse and reports 0; and Reset leaves any buffer all zero, so
\* valid, sparse and reporting 0.
C6_ZeroBufferIsEmpty ==
    /\ probe.p \in 4..25 => (~probe.err /\ probe.valid /\ probe.card = 0)
    /\ last.op = "Reset" =>
        /\ Target = Zeros(Len(Target))
        /\ IsValid(Target) /\ IsSparse(Target) /\ Estimate(Target) = 0
    /\ \A b \in {h, g} : b = Zeros(Len(b)) => (IsValid(b) /\ IsSparse(b) /\ Estimate(b) = 0)

\* Reset has been applied to a dense, dirty buffer.
C6_Witness ==
    /\ last.op = "Reset" /\ last.pre = 128 + 64
    /\ Target = Zeros(Len(Target))

\* C7: Merge of two buffers of different lengths returns an error, whether
\* the receiver is the longer or the shorter one, and changes neither buffer.
C7_MergeSizeMismatch ==
    [][(last'.op = "Merge" /\ Len(h) # Len(g)) =>
            (last'.ret = 1 /\ h' = h /\ g' = g)]_vars

\* h.Merge(g) has failed on a shorter dense h and a longer sparse g, both
\* holding hashes.
C7_Witness ==
    /\ last.op = "Merge" /\ last.buf = "h" /\ last.ret = 1
    /\ Len(h) < Len(g)
    /\ isDense(h) /\ added.h # {} /\ IsSparse(g) /\ size(g) = 2

\* C8: Merge of two buffers of one length returns no error; the target is
\* sparse afterwards iff both were sparse and the sparse replay of the other's
\* hashes never reported full, and is otherwise dense with its dirty bit set.
C8_MergeModeTable ==
    [][(last'.op = "Merge" /\ Len(h) = Len(g)) =>
            /\ last'.ret = 0
            /\ IsSparse(h') <=> (IsSparse(h) /\ IsSparse(g) /\ mergeIntoSparse(h, g).res = ok)
            /\ isDense(h') => dirty(h')]_vars

\* A sparse h has been merged with a dense g and is dense and dirty.
C8_Witness ==
    /\ last.op = "Merge" /\ last.buf = "h" /\ last.ret = 0
    /\ last.pre < 64 /\ isDense(g) /\ Len(h) = Len(g)
    /\ isDense(h) /\ dirty(h)
    /\ added.h # {}

C10_CacheCoherent ==
    \A b \in {h, g} :
        (isDense(b) /\ ~dirty(b)) => cached(b) = DenseEstimate(payload(b))

\* An Add that raised no register has left a dense buffer clean with its
\* cached estimate of 1.
C10_Witness ==
    /\ last.op = "Add" /\ last.pre = 64
    /\ isDense(Target) /\ ~dirty(Target)
    /\ cached(Target) = 1
    /\ get(payload(Target), 3) = 3

RECURSIVE denseOf(_, _)
denseOf(d, S) ==
    IF S = {} THEN d
    ELSE LET x == CHOOSE y \in S : TRUE
         IN  denseOf(DenseAdd(d, x).d, S \ {x})

\* C12: whenever a buffer is dense, its register array is the one that dense
\* add builds, from all-zero registers, out of every hash added to the buffer
\* or held by a buffer merged into it since it was all zero; and the Merge
\* that promotes a buffer returns no error.
C12_PromotionLosesNothing ==
    /\ isDense(h) => payload(h) = denseOf(Zeros(Len(h) - 8), added.h)
    /\ isDense(g) => payload(g) = denseOf(Zeros(Len(g) - 8), added.g)
    /\ (last.op = "Merge" /\ last.pre < 64 /\ isDense(h)) => last.ret = 0

\* A Merge of two sparse buffers of precision 5 has promoted h, which now
\* holds the three hashes of the model, one of them from g only.
C12_Witness ==
    /\ last.op = "Merge" /\ last.buf = "h" /\ last.pre < 64
    /\ IsSparse(g) /\ isDense(h) /\ Len(h) = 32
    /\ added.h = Hashes /\ added.g # Hashes

\* C13: IsValid returns an error iff the length is below 8, or len - 8 is
\* not a multiple of 3, or m = 4(len-8)/3 is not 2^P for a P in 4..25, or
\* the buffer is sparse and its stored count exceeds floor((len-8)/8); a
\* dense header is never the reason for an error.
C13_IsValidRule ==
    last.op = "Valid" =>
        LET n == probe.size
            shape == /\ n >= 8
                     /\ (n - 8) % 3 = 0
                     /\ \E P \in 4..25 : 4 * ((n - 8) \div 3) = 2 ^ P
            count == ((probe.hdr[1] % 64) * 16777216) + (probe.hdr[2] * 65536)
                        + (probe.hdr[3] * 256) + probe.hdr[4]
        IN  /\ probe.err <=> ~probe.valid
            /\ ~shape => probe.err
            /\ (shape /\ probe.hdr[1] % 128 >= 64) => ~probe.err
            /\ (shape /\ probe.hdr[1] % 128 < 64) =>
                    (probe.err <=> count > (n - 8) \div 8)

\* IsValid has accepted a sparse buffer of precision 5 whose count is its
\* capacity of three hashes.
C13_Witness ==
    /\ last.op = "Valid" /\ probe.size = 32 /\ probe.valid
    /\ probe.hdr = <<0, 0, 0, 3>>

\* C14: set(i, v) makes get(i) return v and changes the value get returns
\* for no other register, register d of any group included; so after any
\* sequence of set calls every get returns the value last set (0 if none).
C14_GetSetCells ==
    [][last'.op = "set" =>
            \A j \in 0..(m(h) - 1) :
                get(h', j) = IF j = last'.hash[1] THEN last'.ret ELSE get(h, j)]_vars

\* set has stored 21 in register d of the first group while its neighbours
\* a, b and c hold values set before.
C14_Witness ==
    /\ last.op = "set" /\ last.hash = <<3>> /\ last.ret = 21
    /\ get(h, 3) = 21
    /\ Cardinality({j \in 0..2 : get(h, j) # 0}) = 2

\* C15: for P in 4..25 DenseSizeByP returns 3 * 2^(P-2) and SizeByP 8 more,
\* with no error, and a buffer of that size passes IsValid, which derives
\* the same P; for any other P both return an error and the size 0.
C15_SizeByP ==
    last.op = "Probe" =>
        IF probe.p \in 4..25
        THEN /\ ~probe.derr /\ probe.dsize = 3 * (2 ^ (probe.p - 2))
             /\ ~probe.err /\ probe.size = 8 + (3 * (2 ^ (probe.p - 2)))
             /\ probe.valid /\ probe.backP = probe.p
        ELSE /\ probe.derr /\ probe.dsize = 0
             /\ probe.err /\ probe.size = 0

\* SizeByP(25) has returned 8 + 3 * 2^23, the largest size.
C15_Witness ==
    /\ last.op = "Probe" /\ probe.p = 25
    /\ probe.size = 25165832 /\ probe.dsize = 25165824 /\ probe.valid

\* C16 (scenario S3): at precision 8, once the empty dense buffer g has been
\* merged into a sparse h holding xorshift64*(0), (1) and (2), two calls of
\* EstimateCardinality on h return the same value, and that value is 3.
C16_ScenarioS3 ==
    (last.op = "Merge" /\ last.pre < 64 /\ added.h = XsHashes) =>
        LET first == EstimateCardinality(h)
            second == EstimateCardinality(first.h)
        IN  first.card = second.card /\ first.card = 3

\* C17: the count V of the dense estimator is the number of registers that
\* are zero, each of the registers a, b, c and d of a group counted once.
C17_ZeroRegisterCount ==
    (last.op = "Estimate" /\ last.pre = 128 + 64) =>
        zeroCount(payload(Target), 0) =
            Cardinality({i \in 0..(m(payload(Target)) - 1) : get(payload(Target), i) = 0})

Max(a, b) == IF a > b THEN a ELSE b

\* The registers of the array d, in order.
Regs(d) == [i \in 0..(m(d) - 1) |-> get(d, i)]

\* The effect C18 states for Dense.Add of hash on d, giving d2 and changed:
\* register hash mod m becomes the larger of its value and rho, no other
\* register changes, changed tells whether the register grew, and addSlow
\* gives the same array.
IsRegisterMax(d, hash, d2, changed) ==
    LET idx == hash[1] % m(d)
    IN  /\ \A j \in 0..(m(d) - 1) :
                get(d2, j) = IF j = idx THEN Max(get(d, j), rhoOf(hash)) ELSE get(d, j)
        /\ changed <=> get(d2, idx) > get(d, idx)
        /\ d2 = addSlow(d, hash)

\* C18: Dense.Add is register-max on register hash mod m, with
\* rho = min(clz(hash) + 1, 63), returns true iff the register grew, and
\* leaves the array as addSlow does, for all four positions in a group.
C18_DenseAddIsRegisterMax ==
    [][/\ (last'.op = "DenseAdd" /\ last'.buf = "h") =>
            IsRegisterMax(h, last'.hash, h', last'.ret = 1)
       /\ (last'.op = "DenseAdd" /\ last'.buf = "g") =>
            IsRegisterMax(g, last'.hash, g', last'.ret = 1)]_vars

\* Dense.Add has left register d of the first group at the 21 that set had
\* stored, above the rho of 3 of the hash, beside a register a of 63.
C18_Witness ==
    /\ last.op = "DenseAdd" /\ last.buf = "h" /\ last.hash = HashB /\ last.ret = 0
    /\ get(h, 3) = 21 /\ get(h, 0) = 63

\* A third register array for the associative law.
ThirdArray == set(set(set(Zeros(12), 3, 42), 1, 21), 7, 5)

\* C19: h.Merge(g) on register arrays makes every register of h the larger
\* of the two, register d of every group included, whatever arrays h and g
\* it is called on; and on register contents merge is commutative,
\* associative and idempotent.
C19_DenseMergeIsMax ==
    LET hg == DenseMerge(h, g)
        gh == DenseMerge(g, h)
        gk == DenseMerge(g, ThirdArray)
    IN  /\ Regs(hg) = [i \in 0..(m(h) - 1) |-> Max(get(h, i), get(g, i))]
        /\ Regs(hg) = Regs(gh)
        /\ Regs(DenseMerge(hg, ThirdArray)) = Regs(DenseMerge(h, gk))
        /\ Regs(DenseMerge(h, h)) = Regs(h)

\* A merge has kept register a of h, 63, and taken register d, 3, from g.
C19_Witness ==
    /\ last.op = "DenseMerge"
    /\ get(h, 0) = 63 /\ get(g, 0) = 0
    /\ get(h, 3) = 3 /\ get(g, 3) = 3

\* The hashes stored in the buffer s, each once.
stored(s) == {hashAt(s, i) : i \in 1..size(s)}

\* The outcome of sparse.Add from buffer s to buffer t with result ret, when
\* the retry is taken up to the count limit after the removal of duplicates.
addsUpTo(s, t, x, ret, limit) ==
    LET fits == size(s) < capacity(s)
        used == Cardinality(stored(s))
        proceeds == fits \/ (dirty(s) /\ used <= limit)
    IN  /\ ret = ok <=> proceeds
        /\ ret = full <=> ~proceeds
        /\ proceeds =>
              /\ size(t) = (IF fits THEN size(s) ELSE used) + 1
              /\ hashAt(t, size(t)) = x
              /\ {hashAt(t, i) : i \in 1..(size(t) - 1)} = stored(s)
              /\ dirty(t)
        /\ ~proceeds =>
              /\ stored(t) = stored(s)
              /\ size(t) = (IF dirty(s) THEN used ELSE size(s))
              /\ ~dirty(s) => t = s

\* C20 as stated: a buffer has floor(len/8) - 1 hash slots; an Add that
\* does not fit sorts and removes duplicates if the buffer is dirty and then
\* appends if and only if fewer than capacity - 100 slots are used;
\* otherwise, and always on a clean full buffer, it reports full and stores
\* nothing.
C20_RetryBelowCapacityLess100 ==
    [][last'.op = "SparseAdd" =>
         addsUpTo(h, h', last'.hash, last'.ret, capacity(h) - 101)]_vars

\* C20, amended: the append after the sort proceeds if and only if at most
\* capacity - 100 slots are used, that is when 100 more hashes fit.
C20_RetryUpToCapacityLess100 ==
    [][last'.op = "SparseAdd" =>
         addsUpTo(h, h', last'.hash, last'.ret, capacity(h) - 100)]_vars

\* An Add on a buffer with all 192 slots used, 92 of them distinct, has
\* sorted it and stored its hash in slot 93.
C20_Witness ==
    /\ last.op = "SparseAdd" /\ last.ret = ok
    /\ last.pre = capacity(h)
    /\ size(h) = capacity(h) - 99
    /\ hashAt(h, size(h)) = last.hash

\* The stored bytes a come before the stored bytes b: they are less at the
\* first position where the two differ.
bytesBefore(a, b) ==
    \E k \in 1..8 : a[k] < b[k] /\ \A j \in 1..(k - 1) : a[j] = b[j]

\* The hashes of the sparse buffer s are strictly ascending byte by byte.
ascending(s) ==
    \A i \in 1..(size(s) - 1) : bytesBefore(hashAt(s, i), hashAt(s, i + 1))

\* The sparse buffer t is what sort is to leave of the sparse buffer s.
sorted(s, t) ==
    /\ stored(t) = stored(s)
    /\ ascending(t)
    /\ size(t) = Cardinality(stored(s))
    /\ \A k \in (8 + (8 * size(t)))..(7 + (8 * size(s))) : At(t, k) = 0
    /\ ~dirty(t)

\* The sparse buffer b, if clean, holds strictly ascending hashes.
cleanAscending(b) == (~isDense(b) /\ ~dirty(b)) => ascending(b)

\* C21: the sort that EstimateCardinality runs on a dirty sparse buffer
\* leaves exactly the distinct hashes stored before, strictly ascending
\* byte by byte, their number as the count, zero bytes in the freed slots
\* and the dirty flag clear; and every clean sparse buffer, before and after
\* every step, holds strictly ascending hashes.
C21_SortPostcondition ==
    [][/\ cleanAscending(h) /\ cleanAscending(g)
       /\ cleanAscending(h') /\ cleanAscending(g')
       /\ (last'.op = "Estimate" /\ last'.buf = "h" /\ ~isDense(h) /\ dirty(h)) =>
             sorted(h, h')
       /\ (last'.op = "Estimate" /\ last'.buf = "g" /\ ~isDense(g) /\ dirty(g)) =>
             sorted(g, g')]_vars

\* EstimateCardinality has sorted the dirty buffer h of precision 5 and left
\* HashA before HashB in two slots, with the third slot zero.
C21_Witness ==
    /\ last.op = "Estimate" /\ last.buf = "h" /\ last.pre = 128
    /\ ~isDense(h) /\ ~dirty(h) /\ Len(h) = 32
    /\ size(h) = 2 /\ hashAt(h, 1) = HashA /\ hashAt(h, 2) = HashB
    /\ added.h = {HashA, HashB}
    /\ hashAt(h, 3) = Zeros(8)

\* The sparse buffer b holds no more hashes than it has slots and, if clean,
\* zeros from the end of its last hash to the end of the buffer.
sparseLayout(b) ==
    ~isDense(b) =>
        /\ size(b) <= (Len(b) \div 8) - 1
        /\ ~dirty(b) => \A k \in (8 + (8 * size(b)))..(Len(b) - 1) : At(b, k) = 0

\* C22: in every sparse state that Add, Merge, EstimateCardinality and
\* Reset reach from an all-zero buffer, the count n is at most
\* floor(len/8) - 1 and, when the dirty flag is clear, the bytes from
\* 8 + 8n to the end of the buffer are zero.
C22_SparseLayout == sparseLayout(h) /\ sparseLayout(g)

\* EstimateCardinality has sorted the dirty buffer h of precision 5 and left
\* it clean with one hash and zeros behind it.
C22_Witness ==
    /\ last.op = "Estimate" /\ last.buf = "h" /\ last.pre = 128
    /\ ~isDense(h) /\ ~dirty(h) /\ Len(h) = 32
    /\ size(h) = 1 /\ hashAt(h, 1) = HashB

\* The step from buffer b to buffer c, made by Add or Merge, is a promotion.
promoted(b, c) == last'.op \in {"Add", "Merge"} /\ ~isDense(b) /\ isDense(c)

\* C23: after every promotion from sparse to dense, by Add or by Merge, the
\* header has the mode bit and the dirty bit set and every other bit zero:
\* byte 0 is 192 and bytes 1 to 7 are zero, whatever count the sparse
\* header held.
C23_PromotedHeader ==
    [][/\ promoted(h, h') => header(h') = <<128 + 64, 0, 0, 0, 0, 0, 0, 0>>
       /\ promoted(g, g') => header(g') = <<128 + 64, 0, 0, 0, 0, 0, 0, 0>>]_vars

\* The effect C24 states for Add of hash x on the dense buffer b, giving c:
\* nothing changes when rho does not exceed the register, and the register
\* is raised and the buffer dirty when it does.
denseAddMarks(b, c, x) ==
    LET idx == index(x, m(payload(b)))
    IN  IF rhoOf(x) <= get(payload(b), idx)
        THEN c = b
        ELSE /\ dirty(c) /\ isDense(c)
             /\ get(payload(c), idx) = rhoOf(x)

\* C24: on a dense buffer Add sets the dirty bit if and only if a register
\* changes: a hash whose rho does not exceed its register leaves every byte
\* of the buffer as it was, so a clean cached estimate stays; a hash that
\* raises its register leaves the buffer dirty.
C24_DenseAddMarksDirtyIffChanged ==
    [][(last'.op = "Add" /\ last'.buf = "h" /\ isDense(h)) =>
         denseAddMarks(h, h', last'.hash)]_vars

\* Add of HashC, rho 2 on register 3, has left the clean dense buffer h of
\* precision 4, whose register 3 holds 3, clean.
C24_Witness ==
    /\ last.op = "Add" /\ last.buf = "h" /\ last.hash = HashC /\ last.pre = 64
    /\ Len(h) = 20 /\ At(h, 0) = 64
    /\ get(payload(h), 3) = 3

slotsInBounds(s) == 8 + (8 * size(s)) <= Len(s)

\* Dense.Add, Dense.Merge and the dense estimate stay within the register
\* array d: they walk whole groups of 3 bytes, and idx = hash & (m - 1).
denseInBounds(d) == Len(d) % 3 = 0 /\ m(d) >= 1

\* sparse.Add on s stays within s: the slot it stores into, and the slots it
\* sorts when the buffer is full and dirty.
sparseAddInBounds(s) ==
    IF size(s) + 1 < Len(s) \div 8 THEN ((size(s) + 1) * 8) + 8 <= Len(s)
    ELSE IF ~dirty(s) THEN TRUE
    ELSE IF ~slotsInBounds(s) THEN FALSE
    ELSE (size(sort(s)) + 100 < Len(s) \div 8) =>
            ((size(sort(s)) + 1) * 8) + 8 <= Len(s)

\* HLL.Add of x on b stays within b, the promotion on full included.
addInBounds(b, x) ==
    IF isDense(b) THEN denseInBounds(payload(b))
    ELSE IF ~sparseAddInBounds(b) THEN FALSE
    ELSE (sparseAdd(b, x).res = full) =>
            (slotsInBounds(sparseAdd(b, x).s) /\ denseInBounds(payload(b)))

\* HLL.EstimateCardinality on b stays within b.
estimateInBounds(b) ==
    IF isDense(b) THEN denseInBounds(payload(b)) ELSE (dirty(b) => slotsInBounds(b))

\* The sparse adds of mergeIntoSparse(t, s) from slot i on, and the promotion
\* that follows a full, stay within t.
RECURSIVE replayInBounds(_, _, _)
replayInBounds(t, s, i) ==
    IF i > size(s) THEN TRUE
    ELSE IF ~sparseAddInBounds(t) THEN FALSE
    ELSE LET r == sparseAdd(t, hashAt(s, i))
         IN  IF r.res = full THEN slotsInBounds(r.s)
             ELSE replayInBounds(r.s, s, i + 1)

\* b.Merge(o) stays within b and o.
mergeInBounds(b, o) ==
    IF sizeMismatch(b, o) THEN TRUE
    ELSE IF isDense(b) /\ isDense(o) THEN denseInBounds(payload(b))
    ELSE IF isDense(b) THEN slotsInBounds(o) /\ denseInBounds(payload(b))
    ELSE IF isDense(o) THEN slotsInBounds(b) /\ denseInBounds(payload(b))
    ELSE IF ~slotsInBounds(o) THEN FALSE
    ELSE replayInBounds(b, o, 1) /\ denseInBounds(payload(b))

\* C26: a buffer that has passed IsValid, whatever else it holds, still
\* passes it after every Add, EstimateCardinality and Merge with a valid
\* buffer of its length, and each of these calls stays within the bounds of
\* the buffers it is given.
C26_ValidSufficesAndStays ==
    /\ IsValid(h) /\ IsValid(g) /\ Len(g) = Len(h)
    /\ \A x \in Hashes : addInBounds(h, x)
    /\ estimateInBounds(h)
    /\ mergeInBounds(h, g)

\* Add has promoted the buffer h of precision 5 that arrived sparse and
\* clean with a count of 3, its number of slots, and junk in bytes 4 to 7.
C26_Witness ==
    /\ last.op = "Add" /\ last.buf = "h" /\ last.pre = 0
    /\ Len(h) = 32 /\ isDense(h) /\ IsValid(h)
    /\ At(h, 3) = 3 /\ At(h, 7) = 255

====
